---- MODULE Spec2Model ----
(***************************************************************************)
(* Model of the Negation validation engine (src/src/index.ts): the four    *)
(* evaluators negation, negateObject, negationAsync and negateObjectAsync  *)
(* run over lists of constraints whose checks pass, raise a NegationError  *)
(* (a violation) or raise something else (an unexpected fault), either     *)
(* synchronously or through a Promise that settles later.                  *)
(***************************************************************************)
EXTENDS Integers, Sequences, FiniteSets, TLC

(* ---------------------------- bounds ----------------------------------- *)
MaxCons   == 2     \* constraints in one field's list
MaxChecks == 3     \* constraints in one call (single list, or whole schema)
MaxLen    == 2     \* characters in a string handed to a built-in constraint
MaxNum    == 2     \* numbers handed to a built-in constraint are in -MaxNum..MaxNum

(* ---------------------------- inputs ----------------------------------- *)
Keys      == {"a", "1"}              \* the keys a schema may declare
ObjectKeys == Keys \cup {"extra"}    \* the keys an object may hold
NoKey     == ""
Vals      == {"x", "y"}
NoVal     == "none"
Undefined == "undefined"

Fns       == {"negation", "negateObject", "negationAsync", "negateObjectAsync"}
SyncFns   == {"negation", "negateObject"}
ObjectFns == {"negateObject", "negateObjectAsync"}

\* options.mode as passed by the caller: omitted, one of the two documented
\* values, or some other non-empty string
Modes == {"omitted", "throw", "collect", "strict"}

\* a check settles at the call (sync) or returns a Promise that settles later
\* (async); it passes, raises a NegationError, or raises something else
SyncConstraints  == [timing : {"sync"}, res : {"pass", "viol", "fault"}]
MixedConstraints == [timing : {"sync", "async"}, res : {"pass", "viol", "fault"}]

SeqsUpTo(S, n) == UNION {[1..k -> S] : k \in 0..n}

NoFields == [k \in ObjectKeys |-> Undefined]

ValueSubjects  == {[val |-> v, fields |-> NoFields] : v \in Vals}
ObjectSubjects == {[val |-> NoVal, fields |-> [k \in ObjectKeys |-> IF k = "a" THEN "y" ELSE "x"]]}

\* caller-written constraints: new NegationError(anyPath, message, name) is
\* open to them, so their violation may carry a path of their own choosing
CallerSyncConstraints  == [timing : {"sync"}, res : {"pass", "viol", "fault", "violOwnPath"}]
CallerMixedConstraints == [timing : {"sync", "async"}, res : {"pass", "viol", "fault", "violOwnPath"}]

OwnPath == <<"elsewhere", "deep">>

\* the NegationError (or foreign error) object a check raises; key/idx name
\* the constraint occurrence that created it
NoErr == [kind |-> "none", path |-> << >>, key |-> NoKey, idx |-> 0]

\* no built-in constraint is being called on its own
NoCall == [name |-> "none", param |-> 0, value |-> [type |-> "undefined", s |-> << >>, n |-> 0],
           path |-> << >>, answer |-> "none"]

NoResult == [kind |-> "none", path |-> << >>, constraint |-> "none"]

(* ---------------------------- state ------------------------------------ *)
VARIABLES
  fn,           \* the evaluator that was called
  mode,         \* options.mode as passed
  subject,      \* the value or the object under test
  constraints,  \* single-value evaluators: the constraint list
  declared,     \* object evaluators: schema keys in the order they were declared
  schema,       \* object evaluators: schema[i] is the list declared for declared[i]
  pos,          \* position of the loop(s): index of the next check of Plan
  errors,       \* const errors: NegationError[]
  invoked,      \* log of constraint invocations (side-effect counter)
  pending,      \* checks whose Promise has not settled yet
  promises,     \* negateObjectAsync: validationPromises, in push order
  rejections,   \* negateObjectAsync: rejected validationPromises, in time order
  phase,        \* "loop", "await", "awaitAll" or "done"
  outcome,      \* what the caller has received
  previous,     \* what the caller received from the call before this one
  call,         \* a built-in constraint called on its own: which, with what
  stage,        \* how far that call of validate has come
  result,       \* what that call of validate has done: returned or raised
  checkCalls    \* the values checkDuplicate has been called with

vars == <<fn, mode, subject, constraints, declared, schema, pos, errors,
          invoked, pending, promises, rejections, phase, outcome, previous,
          call, stage, result, checkCalls>>

inputs == <<fn, mode, subject, constraints, declared, schema>>

builtIn == <<call, stage, result, checkCalls>>

(* ---------------------- schema enumeration ------------------------------ *)
\* for (const key in schema): integer-like keys come first, in ascending
\* numeric order, then the other keys in the order they were declared
ArrayIndex(k) == IF k = "1" THEN 1 ELSE -1

IsArrayIndex(k) == ArrayIndex(k) >= 0

RECURSIVE Ascending(_)
Ascending(S) ==
  IF S = {} THEN << >>
  ELSE LET m == CHOOSE k \in S : \A o \in S : ArrayIndex(k) <= ArrayIndex(o)
       IN <<m>> \o Ascending(S \ {m})

NotArrayIndex(k) == ~IsArrayIndex(k)

ForInKeys(decl) ==
  Ascending({decl[i] : i \in {j \in 1..Len(decl) : IsArrayIndex(decl[j])}})
    \o SelectSeq(decl, NotArrayIndex)

\* schema[key] || []
ListOf(decl, sch, k) == sch[CHOOSE i \in 1..Len(decl) : decl[i] = k]

\* the checks of one list, each with the value and the path it is called with
ChecksOf(k, list, v, path) ==
  [j \in 1..Len(list) |-> [key |-> k, idx |-> j, value |-> v, path |-> path, c |-> list[j]]]

\* the loops handing the whole object to each constraint
RECURSIVE ObjectChecks_PassesObject(_, _, _, _)
ObjectChecks_PassesObject(order, decl, sch, obj) ==
  IF order = << >> THEN << >>
  ELSE ChecksOf(Head(order), ListOf(decl, sch, Head(order)), obj, <<Head(order)>>)
         \o ObjectChecks_PassesObject(Tail(order), decl, sch, obj)

RECURSIVE ObjectChecks(_, _, _, _)
ObjectChecks(order, decl, sch, obj) ==
  IF order = << >> THEN << >>
  ELSE ChecksOf(Head(order), ListOf(decl, sch, Head(order)), obj[Head(order)], <<Head(order)>>)
         \o ObjectChecks(Tail(order), decl, sch, obj)

\* the checks of the call, in the order the loops of the evaluator visit them
Plan ==
  IF fn \in ObjectFns
  THEN ObjectChecks(ForInKeys(declared), declared, schema, subject.fields)
  ELSE ChecksOf(NoKey, constraints, subject.val, << >>)

(* ---------------------- pieces of the evaluators ------------------------ *)
\* the mode taken from the options as it is, without a default
EffectiveMode_NoDefault(m) == m

\* const mode = options.mode || 'throw'
EffectiveMode(m) == IF m = "omitted" THEN "throw" ELSE m

\* what a check raises: the built-in and documented constraints construct the
\* NegationError with the path they were called with
\* (a caller-written constraint may construct it with any path: OwnPath)
Thrown(ck) ==
  CASE ck.c.res = "viol"  -> [kind |-> "violation", path |-> ck.path, key |-> ck.key, idx |-> ck.idx]
    [] ck.c.res = "fault" -> [kind |-> "fault", path |-> << >>, key |-> ck.key, idx |-> ck.idx]
    [] ck.c.res = "violOwnPath" ->
         [kind |-> "violation", path |-> OwnPath, key |-> ck.key, idx |-> ck.idx]
    [] OTHER              -> NoErr

\* isAsyncConstraint: constraint({} as T, []) or constraint.validate({} as T,
\* []), a call with a placeholder value and the empty path, made only to see
\* whether a Promise comes back; no evaluator calls isAsyncConstraint
Placeholder == "{}"

ProbeOf(ck) == [key |-> ck.key, idx |-> ck.idx, value |-> Placeholder, path |-> << >>]

\* the evaluator classifying the constraint by a probe call instead of
\* calling it with the value under test
Invocation_Probe(ck) == ProbeOf(ck)

\* constraint(value, path) / constraint.validate(value, path)
Invocation(ck) == [key |-> ck.key, idx |-> ck.idx, value |-> ck.value, path |-> ck.path]

\* the catch of negation without the rethrow in throw mode
negationCatch_NeverAborts(m, e) ==
  IF e.kind = "violation" THEN "push" ELSE "throw"

\* the catch of negation rethrowing whatever it caught
negationCatch_AlwaysAborts(m, e) == "throw"

\* catch (error) { ... } of negation
negationCatch(m, e) ==
  IF e.kind = "violation" THEN (IF m = "throw" THEN "throw" ELSE "push") ELSE "throw"

\* the catch of negateObject without the rethrow in throw mode
negateObjectCatch_NeverAborts(m, e) ==
  IF e.kind = "violation" THEN "push" ELSE "throw"

\* the catch of negateObject rethrowing whatever it caught
negateObjectCatch_AlwaysAborts(m, e) == "throw"

\* catch (error) { ... } of negateObject
negateObjectCatch(m, e) ==
  IF e.kind = "violation" THEN (IF m = "throw" THEN "throw" ELSE "push") ELSE "throw"

\* the catch of negationAsync treating every caught error as a violation
negationAsyncCatch_SwallowsFaults(m, e) == IF m = "throw" THEN "throw" ELSE "push"

\* the catch of negationAsync without the rethrow in throw mode
negationAsyncCatch_NeverAborts(m, e) ==
  IF e.kind = "violation" THEN "push" ELSE "throw"

\* catch (error) { ... } of negationAsync
negationAsyncCatch(m, e) ==
  IF e.kind = "violation" THEN (IF m = "throw" THEN "throw" ELSE "push") ELSE "throw"

\* catch (error) { ... } inside the async closure of negateObjectAsync
negateObjectAsyncCatch(m, e) ==
  IF e.kind = "violation" THEN (IF m = "throw" THEN "throw" ELSE "push") ELSE "throw"

NoOutcome == [kind |-> "none", shape |-> "none", ret |-> [val |-> NoVal, fields |-> NoFields],
              errs |-> << >>, err |-> NoErr]

Raised(e) == [NoOutcome EXCEPT !.kind = "raised", !.err = e]

ReturnedErrors(errs) == [NoOutcome EXCEPT !.kind = "returned", !.shape = "errors", !.errs = errs]

ReturnedSubject(s) == [NoOutcome EXCEPT !.kind = "returned", !.shape = "subject", !.ret = s]

\* the return of negation with the two arms exchanged
negationResult_Swapped(m, errs, s) == IF m = "collect" THEN ReturnedSubject(s) ELSE ReturnedErrors(errs)

\* return mode === 'collect' ? Object.freeze(errors) : value
negationResult(m, errs, s) == IF m = "collect" THEN ReturnedErrors(errs) ELSE ReturnedSubject(s)

negateObjectResult(m, errs, s) == IF m = "collect" THEN ReturnedErrors(errs) ELSE ReturnedSubject(s)

negationAsyncResult(m, errs, s) == IF m = "collect" THEN ReturnedErrors(errs) ELSE ReturnedSubject(s)

\* the return of negateObjectAsync handing back the object in every mode
negateObjectAsyncResult_AlwaysObject(m, errs, s) == ReturnedSubject(s)

\* return mode === 'collect' ? Object.freeze(errors) : obj
negateObjectAsyncResult(m, errs, s) == IF m = "collect" THEN ReturnedErrors(errs) ELSE ReturnedSubject(s)

(* ---------------------------- Init -------------------------------------- *)
RECURSIVE Total(_)
Total(sch) == IF sch = << >> THEN 0 ELSE Len(Head(sch)) + Total(Tail(sch))

\* negation and negateObject take Constraint<T>; the async evaluators take
\* MixedConstraint<T>
ConstraintsOf(f) == IF f \in SyncFns THEN SyncConstraints ELSE MixedConstraints

\* a schema declares each of its keys once, in some order
DeclaredKeys ==
  {d \in SeqsUpTo(Keys, Cardinality(Keys)) : \A i, j \in 1..Len(d) : i # j => d[i] # d[j]}

Init ==
  /\ fn \in Fns
  /\ mode \in Modes
  /\ IF fn \in ObjectFns
     THEN /\ subject \in ObjectSubjects
          /\ constraints = << >>
          /\ declared \in DeclaredKeys
          /\ schema \in {sch \in [1..Len(declared) -> SeqsUpTo(ConstraintsOf(fn), MaxCons)] :
                           Total(sch) <= MaxChecks}
     ELSE /\ subject \in ValueSubjects
          /\ constraints \in SeqsUpTo(ConstraintsOf(fn), MaxChecks)
          /\ declared = << >>
          /\ schema = << >>
  /\ pos = 1
  /\ errors = << >>
  /\ invoked = << >>
  /\ pending = {}
  /\ promises = << >>
  /\ rejections = << >>
  /\ phase = "loop"
  /\ outcome = NoOutcome
  /\ previous = NoOutcome
  /\ call = NoCall
  /\ stage = "idle"
  /\ result = NoResult
  /\ checkCalls = << >>

(* ---------------------------- negation ---------------------------------- *)
\* one iteration of for (const constraint of constraints) { try ... catch ... }
negationStep ==
  /\ fn = "negation" /\ phase = "loop" /\ pos <= Len(Plan)
  /\ LET ck == Plan[pos]
         e  == Thrown(ck)
         m  == EffectiveMode(mode)
     IN /\ invoked' = Append(invoked, Invocation(ck))
        /\ IF e = NoErr
           THEN pos' = pos + 1 /\ UNCHANGED <<errors, phase, outcome>>
           ELSE IF negationCatch(m, e) = "throw"
                THEN /\ outcome' = Raised(e)
                     /\ phase' = "done"
                     /\ UNCHANGED <<pos, errors>>
                ELSE /\ errors' = Append(errors, e)
                     /\ pos' = pos + 1
                     /\ UNCHANGED <<phase, outcome>>
  /\ UNCHANGED <<inputs, builtIn, previous, pending, promises, rejections>>

\* negation emptying the list it was given before it returns
negationReturn_EmptiesList ==
  /\ fn = "negation" /\ phase = "loop" /\ pos > Len(Plan)
  /\ outcome' = negationResult(EffectiveMode(mode), errors, subject)
  /\ phase' = "done"
  /\ constraints' = << >>
  /\ UNCHANGED <<fn, mode, subject, declared, schema, builtIn, previous, pos, errors, invoked,
                 pending, promises, rejections>>

negationReturn ==
  /\ fn = "negation" /\ phase = "loop" /\ pos > Len(Plan)
  /\ outcome' = negationResult(EffectiveMode(mode), errors, subject)
  /\ phase' = "done"
  /\ UNCHANGED <<inputs, builtIn, previous, pos, errors, invoked, pending, promises, rejections>>

(* ---------------------------- negateObject ------------------------------ *)
\* one iteration of the inner loop of for (const key in schema) { for (const
\* constraint of constraints) { try ... catch ... } }
negateObjectStep ==
  /\ fn = "negateObject" /\ phase = "loop" /\ pos <= Len(Plan)
  /\ LET ck == Plan[pos]
         e  == Thrown(ck)
         m  == EffectiveMode(mode)
     IN /\ invoked' = Append(invoked, Invocation(ck))
        /\ IF e = NoErr
           THEN pos' = pos + 1 /\ UNCHANGED <<errors, phase, outcome>>
           ELSE IF negateObjectCatch(m, e) = "throw"
                THEN /\ outcome' = Raised(e)
                     /\ phase' = "done"
                     /\ UNCHANGED <<pos, errors>>
                ELSE /\ errors' = Append(errors, e)
                     /\ pos' = pos + 1
                     /\ UNCHANGED <<phase, outcome>>
  /\ UNCHANGED <<inputs, builtIn, previous, pending, promises, rejections>>

negateObjectReturn ==
  /\ fn = "negateObject" /\ phase = "loop" /\ pos > Len(Plan)
  /\ outcome' = negateObjectResult(EffectiveMode(mode), errors, subject)
  /\ phase' = "done"
  /\ UNCHANGED <<inputs, builtIn, previous, pos, errors, invoked, pending, promises, rejections>>

(* ---------------------------- negationAsync ----------------------------- *)
\* the iteration of negationAsync going on without awaiting the Promise
negationAsyncInvoke_NoAwait ==
  /\ fn = "negationAsync" /\ phase = "loop" /\ pos <= Len(Plan)
  /\ invoked' = Append(invoked, Invocation(Plan[pos]))
  /\ pending' = IF Plan[pos].c.timing = "async" THEN pending \cup {pos} ELSE pending
  /\ pos' = pos + 1
  /\ UNCHANGED <<inputs, builtIn, previous, errors, promises, rejections, phase, outcome>>

\* the call of the constraint in one iteration: a result that is not a
\* Promise is dealt with at once, a Promise is awaited
negationAsyncInvoke ==
  /\ fn = "negationAsync" /\ phase = "loop" /\ pos <= Len(Plan)
  /\ LET ck == Plan[pos]
         e  == Thrown(ck)
         m  == EffectiveMode(mode)
     IN /\ invoked' = Append(invoked, Invocation(ck))
        /\ IF ck.c.timing = "async"
           THEN /\ pending' = pending \cup {pos}
                /\ phase' = "await"
                /\ UNCHANGED <<pos, errors, outcome>>
           ELSE /\ UNCHANGED pending
                /\ IF e = NoErr
                   THEN pos' = pos + 1 /\ UNCHANGED <<errors, phase, outcome>>
                   ELSE IF negationAsyncCatch(m, e) = "throw"
                        THEN /\ outcome' = Raised(e)
                             /\ phase' = "done"
                             /\ UNCHANGED <<pos, errors>>
                        ELSE /\ errors' = Append(errors, e)
                             /\ pos' = pos + 1
                             /\ UNCHANGED <<phase, outcome>>
  /\ UNCHANGED <<inputs, builtIn, previous, promises, rejections>>

\* the loop calling the same constraint again after its Promise is fulfilled
negationAsyncSettle_Retries ==
  /\ fn = "negationAsync" /\ phase = "await" /\ pos \in pending
  /\ LET ck == Plan[pos]
         e  == Thrown(ck)
         m  == EffectiveMode(mode)
     IN /\ pending' = pending \ {pos}
        /\ IF e = NoErr
           THEN phase' = "loop" /\ UNCHANGED <<pos, errors, outcome>>
           ELSE IF negationAsyncCatch(m, e) = "throw"
                THEN /\ outcome' = Raised(e)
                     /\ phase' = "done"
                     /\ UNCHANGED <<pos, errors>>
                ELSE /\ errors' = Append(errors, e)
                     /\ pos' = pos + 1
                     /\ phase' = "loop"
                     /\ UNCHANGED outcome
  /\ UNCHANGED <<inputs, builtIn, previous, invoked, promises, rejections>>

\* await result: the Promise of the check settles and the loop goes on
negationAsyncSettle ==
  /\ fn = "negationAsync" /\ phase = "await" /\ pos \in pending
  /\ LET ck == Plan[pos]
         e  == Thrown(ck)
         m  == EffectiveMode(mode)
     IN /\ pending' = pending \ {pos}
        /\ IF e = NoErr
           THEN pos' = pos + 1 /\ phase' = "loop" /\ UNCHANGED <<errors, outcome>>
           ELSE IF negationAsyncCatch(m, e) = "throw"
                THEN /\ outcome' = Raised(e)
                     /\ phase' = "done"
                     /\ UNCHANGED <<pos, errors>>
                ELSE /\ errors' = Append(errors, e)
                     /\ pos' = pos + 1
                     /\ phase' = "loop"
                     /\ UNCHANGED outcome
  /\ UNCHANGED <<inputs, builtIn, previous, invoked, promises, rejections>>

negationAsyncReturn ==
  /\ fn = "negationAsync" /\ phase = "loop" /\ pos > Len(Plan)
  /\ outcome' = negationAsyncResult(EffectiveMode(mode), errors, subject)
  /\ phase' = "done"
  /\ UNCHANGED <<inputs, builtIn, previous, pos, errors, invoked, pending, promises, rejections>>

(* ---------------------------- negateObjectAsync ------------------------- *)
Pending == [state |-> "pending", reason |-> NoErr]

Fulfilled == [state |-> "fulfilled", reason |-> NoErr]

Rejected(e) == [state |-> "rejected", reason |-> e]

\* the evaluator suspending on the Promise it has just pushed in every mode
AwaitsEach_Always(m) == TRUE

\* the evaluator never suspending on the Promise it has just pushed
AwaitsEach_Never(m) == FALSE

\* the test of the mode before await validatePromise inverted
AwaitsEach_OnlyCollect(m) == m = "collect"

\* if (mode === 'throw') { await validatePromise }
AwaitsEach(m) == m = "throw"

\* if (mode === 'collect') { await Promise.all(validationPromises) }
AwaitsAll(m) == m = "collect"

\* Promise.all: rejected with the reason of the first Promise that rejected, as
\* soon as one has; fulfilled once all are
PromiseAll(ps, rej) ==
  IF rej # << >> THEN Rejected(ps[Head(rej)].reason)
  ELSE IF \A i \in 1..Len(ps) : ps[i].state = "fulfilled" THEN Fulfilled
  ELSE Pending

\* one iteration of the inner loop: the async closure is called and runs up
\* to its first await (or to its end), its Promise is pushed, and in throw
\* mode the evaluator suspends on it
negateObjectAsyncLaunch ==
  /\ fn = "negateObjectAsync" /\ phase = "loop" /\ pos <= Len(Plan)
  /\ LET ck == Plan[pos]
         e  == Thrown(ck)
         m  == EffectiveMode(mode)
     IN /\ invoked' = Append(invoked, Invocation(ck))
        /\ IF ck.c.timing = "async"
           THEN /\ pending' = pending \cup {pos}
                /\ promises' = Append(promises, Pending)
                /\ UNCHANGED <<errors, rejections>>
           ELSE /\ UNCHANGED pending
                /\ IF e = NoErr
                   THEN /\ promises' = Append(promises, Fulfilled)
                        /\ UNCHANGED <<errors, rejections>>
                   ELSE IF negateObjectAsyncCatch(m, e) = "throw"
                        THEN /\ promises' = Append(promises, Rejected(e))
                             /\ rejections' = Append(rejections, pos)
                             /\ UNCHANGED errors
                        ELSE /\ errors' = Append(errors, e)
                             /\ promises' = Append(promises, Fulfilled)
                             /\ UNCHANGED rejections
        /\ IF AwaitsEach(m)
           THEN phase' = "await" /\ UNCHANGED pos
           ELSE pos' = pos + 1 /\ UNCHANGED phase
  /\ UNCHANGED <<inputs, builtIn, previous, outcome>>

\* the closure of a check resuming while the loops are still launching
negateObjectAsyncCheckSettle_DuringLoop(i) ==
  /\ fn = "negateObjectAsync" /\ i \in pending
  /\ LET ck == Plan[i]
         e  == Thrown(ck)
         m  == EffectiveMode(mode)
     IN /\ pending' = pending \ {i}
        /\ IF e = NoErr
           THEN /\ promises' = [promises EXCEPT ![i] = Fulfilled]
                /\ UNCHANGED <<errors, rejections>>
           ELSE IF negateObjectAsyncCatch(m, e) = "throw"
                THEN /\ promises' = [promises EXCEPT ![i] = Rejected(e)]
                     /\ rejections' = Append(rejections, i)
                     /\ UNCHANGED errors
                ELSE /\ errors' = Append(errors, e)
                     /\ promises' = [promises EXCEPT ![i] = Fulfilled]
                     /\ UNCHANGED rejections
  /\ UNCHANGED <<inputs, builtIn, previous, pos, invoked, phase, outcome>>

\* the closure resuming after its await and assigning the buffer instead of
\* pushing to it
negateObjectAsyncCheckSettle_Overwrites(i) ==
  /\ fn = "negateObjectAsync" /\ phase # "loop" /\ i \in pending
  /\ LET ck == Plan[i]
         e  == Thrown(ck)
         m  == EffectiveMode(mode)
     IN /\ pending' = pending \ {i}
        /\ IF e = NoErr
           THEN /\ promises' = [promises EXCEPT ![i] = Fulfilled]
                /\ UNCHANGED <<errors, rejections>>
           ELSE IF negateObjectAsyncCatch(m, e) = "throw"
                THEN /\ promises' = [promises EXCEPT ![i] = Rejected(e)]
                     /\ rejections' = Append(rejections, i)
                     /\ UNCHANGED errors
                ELSE /\ errors' = <<e>>
                     /\ promises' = [promises EXCEPT ![i] = Fulfilled]
                     /\ UNCHANGED rejections
  /\ UNCHANGED <<inputs, builtIn, previous, pos, invoked, phase, outcome>>

\* the Promise returned by a check settles while the evaluator is suspended
\* (or has already settled itself): the closure resumes after its await
negateObjectAsyncCheckSettle(i) ==
  /\ fn = "negateObjectAsync" /\ phase # "loop" /\ i \in pending
  /\ LET ck == Plan[i]
         e  == Thrown(ck)
         m  == EffectiveMode(mode)
     IN /\ pending' = pending \ {i}
        /\ IF e = NoErr
           THEN /\ promises' = [promises EXCEPT ![i] = Fulfilled]
                /\ UNCHANGED <<errors, rejections>>
           ELSE IF negateObjectAsyncCatch(m, e) = "throw"
                THEN /\ promises' = [promises EXCEPT ![i] = Rejected(e)]
                     /\ rejections' = Append(rejections, i)
                     /\ UNCHANGED errors
                ELSE /\ errors' = Append(errors, e)
                     /\ promises' = [promises EXCEPT ![i] = Fulfilled]
                     /\ UNCHANGED rejections
  /\ UNCHANGED <<inputs, builtIn, previous, pos, invoked, phase, outcome>>

\* await validatePromise resumes: the loop goes on, or the rejection is rethrown
negateObjectAsyncResume ==
  /\ fn = "negateObjectAsync" /\ phase = "await" /\ promises[pos].state # "pending"
  /\ IF promises[pos].state = "fulfilled"
     THEN pos' = pos + 1 /\ phase' = "loop" /\ UNCHANGED outcome
     ELSE outcome' = Raised(promises[pos].reason) /\ phase' = "done" /\ UNCHANGED pos
  /\ UNCHANGED <<inputs, builtIn, previous, errors, invoked, pending, promises, rejections>>

\* the loops are over: wait for all the Promises (collect) or return
negateObjectAsyncAfterLoop ==
  /\ fn = "negateObjectAsync" /\ phase = "loop" /\ pos > Len(Plan)
  /\ IF AwaitsAll(EffectiveMode(mode))
     THEN phase' = "awaitAll" /\ UNCHANGED outcome
     ELSE /\ outcome' = negateObjectAsyncResult(EffectiveMode(mode), errors, subject)
          /\ phase' = "done"
  /\ UNCHANGED <<inputs, builtIn, previous, pos, errors, invoked, pending, promises, rejections>>

\* await Promise.all(validationPromises) resumes
negateObjectAsyncAllSettled ==
  /\ fn = "negateObjectAsync" /\ phase = "awaitAll"
  /\ PromiseAll(promises, rejections).state # "pending"
  /\ IF PromiseAll(promises, rejections).state = "rejected"
     THEN outcome' = Raised(PromiseAll(promises, rejections).reason)
     ELSE outcome' = negateObjectAsyncResult(EffectiveMode(mode), errors, subject)
  /\ phase' = "done"
  /\ UNCHANGED <<inputs, builtIn, previous, pos, errors, invoked, pending, promises, rejections>>

(* ---------------------------- specification ----------------------------- *)
Next ==
  \/ negationStep
  \/ negationReturn
  \/ negateObjectStep
  \/ negateObjectReturn
  \/ negationAsyncInvoke
  \/ negationAsyncSettle
  \/ negationAsyncReturn
  \/ negateObjectAsyncLaunch
  \/ \E i \in 1..MaxChecks : negateObjectAsyncCheckSettle(i)
  \/ negateObjectAsyncResume
  \/ negateObjectAsyncAfterLoop
  \/ negateObjectAsyncAllSettled

Spec == Init /\ [][Next]_vars

TypeOK ==
  /\ phase \in {"loop", "await", "awaitAll", "done"}
  /\ pos \in 1..(Len(Plan) + 1)
  /\ outcome.kind \in {"none", "returned", "raised"}
  /\ (outcome.kind # "none") => phase = "done"
  /\ pending \subseteq 1..Len(Plan)

(* ---------------------------- properties -------------------------------- *)
Settled == outcome.kind # "none"

\* index i is the first constraint of list that does not pass, and it raises
\* a violation
FirstFailing(list, i) ==
  /\ i \in 1..Len(list)
  /\ list[i].res = "viol"
  /\ \A j \in 1..(i - 1) : list[j].res = "pass"

NoFault(list) == \A j \in 1..Len(list) : list[j].res # "fault"

AllPass(list) == \A j \in 1..Len(list) : list[j].res = "pass"

\* the violation constraint i of a single-value list creates
ViolationOf(i) == [kind |-> "violation", path |-> << >>, key |-> NoKey, idx |-> i]

\* the call constraint i of a single-value list receives
CallOf(i) == [key |-> NoKey, idx |-> i, value |-> subject.val, path |-> << >>]

\* the violations of the failing constraints of a single-value list, in list order
RECURSIVE ViolationsFrom(_, _)
ViolationsFrom(list, i) ==
  IF i > Len(list) THEN << >>
  ELSE (IF list[i].res = "viol" THEN <<ViolationOf(i)>> ELSE << >>) \o ViolationsFrom(list, i + 1)

\* C1: negation in mode 'throw', when constraint i is the first that fails and
\* it raises a violation: constraints are invoked in list order and none after
\* i, no violation is collected, and the call ends by raising exactly the
\* violation of constraint i.
C1_FailFastSingle ==
  (fn = "negation" /\ mode = "throw") =>
    \A i \in 1..Len(constraints) : FirstFailing(constraints, i) =>
      /\ Len(invoked) <= i
      /\ \A n \in 1..Len(invoked) : invoked[n] = CallOf(n)
      /\ errors = << >>
      /\ outcome.kind # "returned"
      /\ Settled => (outcome = Raised(ViolationOf(i)) /\ Len(invoked) = i)

C1_Witness ==
  /\ fn = "negation" /\ mode = "throw"
  /\ Len(constraints) = 3 /\ FirstFailing(constraints, 2) /\ constraints[3].res = "viol"
  /\ outcome = Raised(ViolationOf(2))

\* C2: negation in mode 'collect' over a list without faults: every
\* constraint is invoked exactly once, in list order, and the call returns one
\* violation per failing constraint, in list order.
C2_CollectAllSingle ==
  (fn = "negation" /\ mode = "collect" /\ NoFault(constraints)) =>
    /\ Len(invoked) <= Len(constraints)
    /\ \A n \in 1..Len(invoked) : invoked[n] = CallOf(n)
    /\ outcome.kind # "raised"
    /\ Settled => /\ Len(invoked) = Len(constraints)
                  /\ outcome = ReturnedErrors(ViolationsFrom(constraints, 1))

C2_Witness ==
  /\ fn = "negation" /\ mode = "collect"
  /\ Len(constraints) = 3
  /\ constraints[1].res = "viol" /\ constraints[2].res = "pass" /\ constraints[3].res = "viol"
  /\ outcome = ReturnedErrors(<<ViolationOf(1), ViolationOf(3)>>)

\* C3: when every constraint passes, negation returns the value itself in
\* mode 'throw' and an empty sequence in mode 'collect'.
C3_SuccessOutcome ==
  (fn = "negation" /\ AllPass(constraints) /\ Settled) =>
    /\ mode = "throw" => outcome = ReturnedSubject(subject)
    /\ mode = "collect" => outcome = ReturnedErrors(<< >>)

C3_Witness ==
  /\ fn = "negation" /\ mode = "throw"
  /\ Len(constraints) = 2 /\ AllPass(constraints)
  /\ outcome.kind = "returned" /\ outcome.ret.val = subject.val /\ Len(invoked) = 2

SequentialFns == {"negation", "negateObject", "negationAsync"}

\* check n of the call has been invoked and its fault has been raised (a
\* check that returned a Promise raises when the Promise rejects)
FaultRaisedAt(n) ==
  /\ n \in 1..Len(invoked)
  /\ Plan[n].c.res = "fault"
  /\ n \notin pending

OnlyViolations(errs) == \A k \in 1..Len(errs) : errs[k].kind = "violation"

\* C4: in negation, negateObject and negationAsync, in every mode, as soon as
\* a check has raised (or rejected with) something that is not a
\* NegationError the call has failed with that same fault, no later
\* constraint is invoked, what was collected is not returned, and no fault is
\* ever an element of the errors buffer or of a returned sequence.
C4_FaultPropagatesSequential ==
  (fn \in SequentialFns) =>
    /\ \A n \in 1..Len(invoked) :
         /\ invoked[n] = Invocation(Plan[n])
         /\ FaultRaisedAt(n) => /\ outcome = Raised(Thrown(Plan[n]))
                                /\ Len(invoked) = n
                                /\ outcome.errs = << >>
    /\ OnlyViolations(errors)
    /\ OnlyViolations(outcome.errs)

C4_Witness ==
  /\ fn = "negationAsync" /\ mode = "collect"
  /\ Len(constraints) = 3
  /\ constraints[1].res = "viol"
  /\ constraints[2] = [timing |-> "async", res |-> "fault"]
  /\ Len(errors) = 1
  /\ outcome = Raised([kind |-> "fault", path |-> << >>, key |-> NoKey, idx |-> 2])
  /\ Len(invoked) = 2

\* the validationPromises that rejected with an unexpected fault
FaultedPromises ==
  {i \in 1..Len(promises) : promises[i].state = "rejected" /\ promises[i].reason.kind = "fault"}

\* C5: in negateObjectAsync, in both modes, once a check has raised or
\* rejected with something that is not a NegationError, no constraint check is
\* started any more, the call settles only by rejecting with a fault, and no
\* fault is an element of a returned sequence.
C5_FaultPropagatesObjectAsync ==
  [][(fn = "negateObjectAsync" /\ mode \in {"throw", "collect"} /\ FaultedPromises # {}) =>
       /\ invoked' = invoked
       /\ (outcome'.kind # "none") => (outcome'.kind = "raised" /\ outcome'.err.kind = "fault")
       /\ OnlyViolations(outcome'.errs)]_vars

\* the fields of the schema in the order the evaluator enumerates them
Order == ForInKeys(declared)

FieldList(k) == ListOf(declared, schema, k)

FieldPos(k) == CHOOSE q \in 1..Len(Order) : Order[q] = k

\* the violation constraint i of field k creates
FieldViolation(k, i) == [kind |-> "violation", path |-> <<k>>, key |-> k, idx |-> i]

\* field p is the first field of the schema with a failing constraint, and
\* its first failing constraint, i, raises a violation
FirstFailingField(p, i) ==
  /\ p \in 1..Len(Order)
  /\ \A q \in 1..(p - 1) : AllPass(FieldList(Order[q]))
  /\ FirstFailing(FieldList(Order[p]), i)

\* every invocation so far is of a constraint at or before constraint i of field p
NothingAfter(p, i) ==
  \A n \in 1..Len(invoked) :
    \/ FieldPos(invoked[n].key) < p
    \/ invoked[n].key = Order[p] /\ invoked[n].idx <= i

InSchemaOrder(errs) ==
  \A a, b \in 1..Len(errs) : a < b =>
    \/ FieldPos(errs[a].key) < FieldPos(errs[b].key)
    \/ errs[a].key = errs[b].key /\ errs[a].idx < errs[b].idx

SchemaHasNoFault == \A q \in 1..Len(Order) : NoFault(FieldList(Order[q]))

\* the constraints of the schema that raise a violation, as (field, index)
FailingConstraints ==
  {<<k, i>> \in Keys \X (1..MaxChecks) :
     /\ \E q \in 1..Len(Order) : Order[q] = k
     /\ i <= Len(FieldList(k))
     /\ FieldList(k)[i].res = "viol"}

\* constraint i of field k has been invoked exactly once, with the value of
\* the field and the path [k]
InvokedOnce(k, i) ==
  /\ Cardinality({n \in 1..Len(invoked) : invoked[n].key = k /\ invoked[n].idx = i}) = 1
  /\ \A n \in 1..Len(invoked) :
       (invoked[n].key = k /\ invoked[n].idx = i) =>
         (invoked[n].value = subject.fields[k] /\ invoked[n].path = <<k>>)

\* errs holds exactly one violation per failing constraint of the schema
OnePerFailingConstraint(errs) ==
  /\ Len(errs) = Cardinality(FailingConstraints)
  /\ \A f \in FailingConstraints : \E a \in 1..Len(errs) : errs[a] = FieldViolation(f[1], f[2])

C8_CompletionOrderNeverLeaks ==
  (fn = "negateObjectAsync" /\ mode = "collect" /\ outcome.shape = "errors") =>
    InSchemaOrder(outcome.errs)

\* C9: negateObjectAsync in mode 'collect': whenever the caller has received
\* an outcome (a result or a rejection), no check started by the call is
\* still pending.
C9_NoPartialCompletion ==
  (fn = "negateObjectAsync" /\ mode = "collect" /\ Settled) => pending = {}

C11_SingleAsyncSequential ==
  (fn = "negationAsync") =>
    /\ \A n \in 1..Len(invoked) : invoked[n] = CallOf(n)
    /\ Cardinality(pending) <= 1
    /\ pending \subseteq {Len(invoked)}
    /\ (pending # {}) => (phase = "await" /\ ~Settled)

C11_Witness ==
  /\ fn = "negationAsync" /\ mode = "collect"
  /\ Len(constraints) = 3
  /\ \A j \in 1..3 : constraints[j].timing = "async"
  /\ Len(invoked) = 2 /\ pending = {2}

\* negation as a function of its arguments: the loop from check i on, with
\* errs collected so far; gives the outcome and the number of checks invoked
RECURSIVE negationRun(_, _, _, _, _)
negationRun(checks, i, errs, m, s) ==
  IF i > Len(checks)
  THEN [outcome |-> negationResult(m, errs, s), calls |-> Len(checks)]
  ELSE IF Thrown(checks[i]) = NoErr
       THEN negationRun(checks, i + 1, errs, m, s)
       ELSE IF negationCatch(m, Thrown(checks[i])) = "throw"
            THEN [outcome |-> Raised(Thrown(checks[i])), calls |-> i]
            ELSE negationRun(checks, i + 1, Append(errs, Thrown(checks[i])), m, s)

\* C12: for every value, mode and constraint list, negationAsync settles with
\* the outcome negation produces for the same per-constraint results (same
\* returned value, same violation sequence, or same raised violation or
\* fault), having invoked the same constraints in the same order.
C12_AsyncSyncEquivalence ==
  (fn \in {"negation", "negationAsync"} /\ Settled) =>
    LET run == negationRun(Plan, 1, << >>, EffectiveMode(mode), subject)
    IN /\ outcome = run.outcome
       /\ invoked = [n \in 1..run.calls |-> CallOf(n)]

C12_Witness ==
  /\ fn = "negationAsync" /\ mode = "throw"
  /\ constraints = <<[timing |-> "sync", res |-> "pass"], [timing |-> "async", res |-> "viol"]>>
  /\ outcome = Raised(ViolationOf(2))
  /\ errors = << >>

(* ------------- calls with caller-written constraints ------------------- *)
CallerConstraintsOf(f) == IF f \in SyncFns THEN CallerSyncConstraints ELSE CallerMixedConstraints

\* as Init, with constraint lists that may hold caller-written constraints
\* raising a NegationError with their own path
InitCustom ==
  /\ fn \in Fns
  /\ mode \in {"throw", "collect"}
  /\ IF fn \in ObjectFns
     THEN /\ subject \in ObjectSubjects
          /\ constraints = << >>
          /\ declared \in DeclaredKeys
          /\ schema \in {sch \in [1..Len(declared) -> SeqsUpTo(CallerConstraintsOf(fn), MaxCons)] :
                           Total(sch) <= MaxChecks}
     ELSE /\ subject \in ValueSubjects
          /\ constraints \in SeqsUpTo(CallerConstraintsOf(fn), MaxChecks)
          /\ declared = << >>
          /\ schema = << >>
  /\ pos = 1
  /\ errors = << >>
  /\ invoked = << >>
  /\ pending = {}
  /\ promises = << >>
  /\ rejections = << >>
  /\ phase = "loop"
  /\ outcome = NoOutcome
  /\ previous = NoOutcome
  /\ call = NoCall
  /\ stage = "idle"
  /\ result = NoResult
  /\ checkCalls = << >>

SpecCustom == InitCustom /\ [][Next]_vars

\* the path of violation e is empty (single value) or the one field name
PathOK(e) ==
  (e.kind = "violation") => (IF fn \in ObjectFns THEN e.path = <<e.key>> ELSE e.path = << >>)

\* C13: for every constraint list or schema, built-in or caller-written,
\* every violation raised or returned by negation and negationAsync has an
\* empty path, and every violation raised or returned by negateObject and
\* negateObjectAsync has the path [field] of the field whose constraint
\* produced it.
C13_PathInvariant ==
  /\ PathOK(outcome.err)
  /\ \A k \in 1..Len(outcome.errs) : PathOK(outcome.errs[k])

PlanNoFault == \A i \in 1..Len(Plan) : Plan[i].c.res # "fault"

PlanAllPass == \A i \in 1..Len(Plan) : Plan[i].c.res = "pass"

AllObjects == [ObjectKeys -> Vals \cup {Undefined}]

\* the two objects agree on every field named in the schema
AgreeOnSchema(o1, o2) == \A i \in 1..Len(declared) : o1[declared[i]] = o2[declared[i]]

\* the checks the object evaluators make on object obj with the schema of the call
PlanFor(obj) == ObjectChecks(ForInKeys(declared), declared, schema, obj)

\* C15: for negateObject and negateObjectAsync: every object that agrees with
\* the object under test on the fields named in the schema gives the same
\* checks (constraint, value, path), and the invocations, the errors buffer
\* and the outcome of the call come from those checks alone; a field declared
\* with an empty list causes no invocation and no violation.
C15_FieldsOutsideSchema ==
  (fn \in ObjectFns) =>
    LET plan   == Plan
        raised == {Thrown(plan[i]) : i \in 1..Len(plan)}
        calls  == {Invocation(plan[i]) : i \in 1..Len(plan)}
        empty  == {k \in Keys : \E i \in 1..Len(declared) : declared[i] = k /\ schema[i] = << >>}
    IN /\ \A o \in AllObjects : AgreeOnSchema(subject.fields, o) => PlanFor(o) = plan
       /\ \A n \in 1..Len(invoked) : invoked[n] \in calls /\ invoked[n].key \notin empty
       /\ \A k \in 1..Len(errors) : errors[k] \in raised /\ errors[k].key \notin empty
       /\ \A k \in 1..Len(outcome.errs) : outcome.errs[k] \in raised
       /\ (outcome.kind = "raised") => (outcome.err \in raised /\ outcome.err.key \notin empty)

C15_Witness ==
  /\ fn = "negateObjectAsync" /\ mode = "collect"
  /\ Len(Order) = 2
  /\ FieldList(Order[1]) = << >>
  /\ Len(FieldList(Order[2])) = 2
  /\ subject.fields["a"] = "y"
  /\ \E k \in ObjectKeys : \A i \in 1..Len(declared) : declared[i] # k
  /\ outcome.kind = "returned" /\ Len(outcome.errs) = 2

\* the first check of the call that does not pass (0: all pass)
FirstNotPassing ==
  IF PlanAllPass THEN 0
  ELSE CHOOSE i \in 1..Len(Plan) :
         Plan[i].c.res # "pass" /\ \A j \in 1..(i - 1) : Plan[j].c.res = "pass"

\* C16: with the mode omitted, each of the four evaluators behaves as with
\* mode 'throw': both invoke the checks in order up to the first one that
\* does not pass and raise what it raised, or invoke them all and return the
\* value or object under test.
C16_DefaultModeIsThrow ==
  (mode \in {"omitted", "throw"} /\ Settled) =>
    LET f == FirstNotPassing
    IN /\ outcome = (IF f = 0 THEN ReturnedSubject(subject) ELSE Raised(Thrown(Plan[f])))
       /\ invoked = [n \in 1..(IF f = 0 THEN Len(Plan) ELSE f) |-> Invocation(Plan[n])]

C16_Witness ==
  /\ fn = "negateObjectAsync" /\ mode = "omitted"
  /\ Len(Plan) = 3
  /\ Plan[1].c.res = "pass" /\ Plan[2].c = [timing |-> "async", res |-> "viol"]
  /\ outcome = Raised(Thrown(Plan[2]))
  /\ Len(invoked) = 2

(* ------------------- the same call made a second time ------------------ *)
\* the caller, having received the outcome, calls the evaluator again with
\* the same arguments: const mode and const errors = [] (and, in
\* negateObjectAsync, validationPromises) are made anew by each call, and
\* the checks of the earlier call keep the buffer of that call
CallAgain ==
  /\ phase = "done" /\ previous = NoOutcome
  /\ previous' = outcome
  /\ pos' = 1
  /\ errors' = << >>
  /\ invoked' = << >>
  /\ pending' = {}
  /\ promises' = << >>
  /\ rejections' = << >>
  /\ phase' = "loop"
  /\ outcome' = NoOutcome
  /\ UNCHANGED <<inputs, builtIn>>

NextTwice == Next \/ CallAgain

SpecTwice == Init /\ [][NextTwice]_vars

\* C17: calling an evaluator a second time with the same value or object,
\* the same list or schema and the same mode yields a result equal to that
\* of the first call.
C17_Idempotence ==
  (previous # NoOutcome /\ Settled) => outcome = previous

\* C18: no step of any of the four evaluators, in any mode and whatever the
\* call ends in, changes the value or object under test, the constraint list
\* or the schema.
C18_InputsNeverMutated ==
  [][/\ subject' = subject
     /\ constraints' = constraints
     /\ declared' = declared
     /\ schema' = schema]_vars

C18_Witness ==
  /\ fn = "negateObject" /\ mode = "collect"
  /\ Len(errors) = 1
  /\ outcome.kind = "raised" /\ outcome.err.kind = "fault"
  /\ Len(invoked) = 3
  /\ subject \in ObjectSubjects

\* the real call of check ck of the evaluator fn: the value under test (or
\* the value of the field) and the empty path (or the path of the field)
RealCall(ck) ==
  [key   |-> ck.key,
   idx   |-> ck.idx,
   value |-> IF fn \in ObjectFns THEN subject.fields[ck.key] ELSE subject.val,
   path  |-> IF fn \in ObjectFns THEN <<ck.key>> ELSE << >>]

\* C19: in every call of the four evaluators each listed constraint is
\* invoked at most once per occurrence in its list, only with the real value
\* under test and the evaluator's path, and never with the placeholder input
\* of isAsyncConstraint.
C19_NoSpeculativeProbe ==
  LET plan == Plan
  IN /\ \A n \in 1..Len(invoked) :
          /\ \E i \in 1..Len(plan) : invoked[n] = RealCall(plan[i])
          /\ invoked[n] \notin {ProbeOf(plan[i]) : i \in 1..Len(plan)}
     /\ \A a, b \in 1..Len(invoked) :
          (invoked[a].key = invoked[b].key /\ invoked[a].idx = invoked[b].idx) => a = b

C19_Witness ==
  /\ fn = "negationAsync" /\ mode = "throw"
  /\ Len(constraints) = 3
  /\ constraints[1].timing = "sync" /\ constraints[2].timing = "async"
  /\ outcome = ReturnedSubject(subject)
  /\ Len(invoked) = 3

C22_AppendOnly ==
  /\ [][mode = "collect" =>
          \/ errors' = errors
          \/ /\ Len(errors') = Len(errors) + 1
             /\ SubSeq(errors', 1, Len(errors)) = errors
             /\ errors'[Len(errors')].kind = "violation"]_vars
  /\ []((fn = "negateObjectAsync" /\ mode = "collect" /\ outcome.kind = "returned") =>
          /\ outcome.errs = errors
          /\ OnePerFailingConstraint(outcome.errs))

C22_Witness ==
  /\ fn = "negateObjectAsync" /\ mode = "collect"
  /\ Len(Order) = 2
  /\ outcome.kind = "returned" /\ Len(outcome.errs) = 3
  /\ ~InSchemaOrder(outcome.errs)
  /\ \A i \in 1..3 : Plan[i].c.timing = "async"

\* C23: in negationAsync and negateObjectAsync, in mode 'throw' or
\* 'collect': a check that the call has started may stay pending for ever,
\* and the call never settles if one does; so, whatever the other
\* constraints do, the call has not settled as long as a check it has
\* started is still pending.
C23_HungCheckHangsCall ==
  (/\ fn \in {"negationAsync", "negateObjectAsync"}
   /\ EffectiveMode(mode) \in {"throw", "collect"}
   /\ pending # {})
    => ~Settled

\* the position at which the schema declares field k
DeclaredPos(k) == CHOOSE q \in 1..Len(declared) : declared[q] = k

\* C24: negateObject and negateObjectAsync visit the fields of the schema in
\* the order in which the schema declares them: a constraint of a field
\* declared later is never invoked before one of a field declared earlier,
\* the violation raised in throw mode belongs to the earliest declared field
\* that has a failing constraint, and the violations negateObject collects
\* are ordered by the declaration of their fields.
C24_DeclarationOrder ==
  fn \in ObjectFns =>
    /\ \A a, b \in 1..Len(invoked) :
         a < b => DeclaredPos(invoked[a].key) <= DeclaredPos(invoked[b].key)
    /\ (EffectiveMode(mode) = "throw" /\ outcome.kind = "raised"
          /\ outcome.err.kind = "violation") =>
         \A q \in 1..(DeclaredPos(outcome.err.key) - 1) : AllPass(schema[q])
    /\ (fn = "negateObject" /\ mode = "collect") =>
         \A a, b \in 1..Len(errors) :
           a < b => DeclaredPos(errors[a].key) <= DeclaredPos(errors[b].key)

(* ---------------------- every check settles ----------------------------- *)
\* the steps the evaluator itself takes: synchronous code, and continuations
\* that the event loop runs once the Promise they wait for has settled
EvaluatorStep ==
  \/ negationStep
  \/ negationReturn
  \/ negateObjectStep
  \/ negateObjectReturn
  \/ negationAsyncInvoke
  \/ negationAsyncReturn
  \/ negateObjectAsyncLaunch
  \/ negateObjectAsyncResume
  \/ negateObjectAsyncAfterLoop
  \/ negateObjectAsyncAllSettled

\* the Promise of a check that was started settles
CheckSettles ==
  \/ negationAsyncSettle
  \/ \E i \in 1..MaxChecks : negateObjectAsyncCheckSettle(i)

\* the event loop runs what is runnable, and as long as checks are pending
\* one of them settles
Fairness ==
  /\ WF_vars(EvaluatorStep)
  /\ WF_vars(CheckSettles)

SpecFair == Init /\ [][Next]_vars /\ Fairness

\* C25: when every check that is started settles, every call of the four
\* evaluators, in every mode, eventually settles, and no constraint is
\* invoked more than once per occurrence in its list or schema.
C25_Termination ==
  /\ <>Settled
  /\ [](\A a, b \in 1..Len(invoked) :
          (invoked[a].key = invoked[b].key /\ invoked[a].idx = invoked[b].idx) => a = b)

C25_Witness ==
  /\ fn = "negateObjectAsync" /\ mode = "collect"
  /\ Len(Plan) = 3 /\ \A i \in 1..3 : Plan[i].c.timing = "async"
  /\ Plan[2].c.res = "fault"
  /\ Settled /\ pending = {} /\ Len(invoked) = 3

\* the violations of the synchronous constraints among the first n checks of
\* the call, in (field, constraint) order
RECURSIVE SyncViolations(_)
SyncViolations(n) ==
  IF n = 0 THEN << >>
  ELSE SyncViolations(n - 1) \o
         (IF Plan[n].c.timing = "sync" /\ Plan[n].c.res = "viol"
          THEN <<Thrown(Plan[n])>> ELSE << >>)

FirstFault ==
  IF \E i \in 1..Len(Plan) : Plan[i].c.res = "fault"
  THEN CHOOSE i \in 1..Len(Plan) :
         Plan[i].c.res = "fault" /\ \A j \in 1..(i - 1) : Plan[j].c.res # "fault"
  ELSE 0

\* C27: with a mode that is neither 'throw' nor 'collect' (and not omitted),
\* each of the four evaluators never raises a violation; when no constraint
\* raises an unexpected fault it invokes every constraint and returns the
\* original value or object, whatever violations were raised; and when one
\* does, the call ends by raising the first such fault.
C27_UnrecognisedMode ==
  mode = "strict" =>
    /\ outcome.kind = "raised" => outcome.err.kind = "fault"
    /\ Settled =>
         IF FirstFault = 0
         THEN /\ outcome = ReturnedSubject(subject)
              /\ invoked = [n \in 1..Len(Plan) |-> Invocation(Plan[n])]
         ELSE outcome = Raised(Thrown(Plan[FirstFault]))

(* ---------------------- the built-in constraints ------------------------ *)
\* the values handed to a built-in: null, undefined, strings of letters and
\* blanks, and integers
Chars == {"a", " "}

Null == [type |-> "null", s |-> << >>, n |-> 0]

UndefinedValue == [type |-> "undefined", s |-> << >>, n |-> 0]

StringValues == {[type |-> "string", s |-> t, n |-> 0] : t \in SeqsUpTo(Chars, MaxLen)}

NumberValues == {[type |-> "number", s |-> << >>, n |-> k] : k \in (-MaxNum)..MaxNum}

AnyValues == {Null, UndefinedValue} \cup StringValues \cup NumberValues

\* the paths the evaluators hand to a constraint: [] or [key]
BuiltInPaths == {<< >>} \cup {<<k>> : k \in Keys}

\* new NegationError(path, message, constraint); each built-in has one fixed
\* message template, which the model leaves out
NegationError(path, constraint) == [kind |-> "violation", path |-> path, constraint |-> constraint]

\* validate returned (or its Promise was fulfilled) without raising
Returns == [kind |-> "returned", path |-> << >>, constraint |-> "none"]

\* the Promise of validate rejected with what checkDuplicate raised
CheckFault == [kind |-> "fault", path |-> << >>, constraint |-> "none"]

\* String.prototype.trim: the string without its leading and trailing blanks
RECURSIVE TrimStart(_)
TrimStart(t) == IF t # << >> /\ Head(t) = " " THEN TrimStart(Tail(t)) ELSE t

RECURSIVE TrimEnd(_)
TrimEnd(t) ==
  IF t # << >> /\ t[Len(t)] = " " THEN TrimEnd(SubSeq(t, 1, Len(t) - 1)) ELSE t

trim(t) == TrimEnd(TrimStart(t))

\* notNull.validate
notNull(value, path) ==
  IF value.type = "null" \/ value.type = "undefined"
  THEN NegationError(path, "notNull") ELSE Returns

\* notEmpty.validate
notEmpty(value, path) ==
  IF trim(value.s) = << >> THEN NegationError(path, "notEmpty") ELSE Returns

\* notNegative.validate
notNegative(value, path) ==
  IF value.n < 0 THEN NegationError(path, "notNegative") ELSE Returns

\* notLongerThan with the comparison admitting no string of the maximal length
notLongerThan_AtLeast(maxLength, value, path) ==
  IF Len(value.s) >= maxLength THEN NegationError(path, "notLongerThan") ELSE Returns

\* notLongerThan(maxLength).validate
notLongerThan(maxLength, value, path) ==
  IF Len(value.s) > maxLength THEN NegationError(path, "notLongerThan") ELSE Returns

\* notShorterThan raising under the identifier of its sibling
notShorterThan_CopiedName(minLength, value, path) ==
  IF Len(value.s) < minLength THEN NegationError(path, "notLongerThan") ELSE Returns

\* notShorterThan(minLength).validate
notShorterThan(minLength, value, path) ==
  IF Len(value.s) < minLength THEN NegationError(path, "notShorterThan") ELSE Returns

\* notGreaterThan(max).validate
notGreaterThan(max, value, path) ==
  IF value.n > max THEN NegationError(path, "notGreaterThan") ELSE Returns

\* notLessThan(min).validate
notLessThan(min, value, path) ==
  IF value.n < min THEN NegationError(path, "notLessThan") ELSE Returns

\* what checkDuplicate does with the value: its Promise resolves true or
\* false, or rejects, or the function throws before returning a Promise
Answers == {"true", "false", "reject", "throw"}

CallsOf(name, params, values, answers) ==
  [name : {name}, param : params, value : values, path : BuiltInPaths, answer : answers]

\* each built-in called with values of the type it is declared for
BuiltInCalls ==
  CallsOf("notNull", {0}, AnyValues, {"none"})
    \cup CallsOf("notEmpty", {0}, StringValues, {"none"})
    \cup CallsOf("notNegative", {0}, NumberValues, {"none"})
    \cup CallsOf("notLongerThan", (-1)..(MaxLen + 1), StringValues, {"none"})
    \cup CallsOf("notShorterThan", (-1)..(MaxLen + 1), StringValues, {"none"})
    \cup CallsOf("notGreaterThan", (-MaxNum)..MaxNum, NumberValues, {"none"})
    \cup CallsOf("notLessThan", (-MaxNum)..MaxNum, NumberValues, {"none"})
    \cup CallsOf("notDuplicate", {0}, AnyValues, Answers)

\* the variables of the evaluators, none of which is running
evaluator == <<inputs, pos, errors, invoked, pending, promises, rejections, phase,
               outcome, previous>>

InitBuiltIn ==
  /\ call \in BuiltInCalls
  /\ stage = "ready"
  /\ result = NoResult
  /\ checkCalls = << >>
  /\ fn = "none"
  /\ mode = "omitted"
  /\ subject = [val |-> NoVal, fields |-> NoFields]
  /\ constraints = << >>
  /\ declared = << >>
  /\ schema = << >>
  /\ pos = 1
  /\ errors = << >>
  /\ invoked = << >>
  /\ pending = {}
  /\ promises = << >>
  /\ rejections = << >>
  /\ phase = "done"
  /\ outcome = NoOutcome
  /\ previous = NoOutcome

\* a call of the validate of a synchronous built-in: it returns or throws
notNullValidate ==
  /\ stage = "ready" /\ call.name = "notNull"
  /\ result' = notNull(call.value, call.path)
  /\ stage' = "done"
  /\ UNCHANGED <<call, checkCalls, evaluator>>

notEmptyValidate ==
  /\ stage = "ready" /\ call.name = "notEmpty"
  /\ result' = notEmpty(call.value, call.path)
  /\ stage' = "done"
  /\ UNCHANGED <<call, checkCalls, evaluator>>

notNegativeValidate ==
  /\ stage = "ready" /\ call.name = "notNegative"
  /\ result' = notNegative(call.value, call.path)
  /\ stage' = "done"
  /\ UNCHANGED <<call, checkCalls, evaluator>>

notLongerThanValidate ==
  /\ stage = "ready" /\ call.name = "notLongerThan"
  /\ result' = notLongerThan(call.param, call.value, call.path)
  /\ stage' = "done"
  /\ UNCHANGED <<call, checkCalls, evaluator>>

notShorterThanValidate ==
  /\ stage = "ready" /\ call.name = "notShorterThan"
  /\ result' = notShorterThan(call.param, call.value, call.path)
  /\ stage' = "done"
  /\ UNCHANGED <<call, checkCalls, evaluator>>

notGreaterThanValidate ==
  /\ stage = "ready" /\ call.name = "notGreaterThan"
  /\ result' = notGreaterThan(call.param, call.value, call.path)
  /\ stage' = "done"
  /\ UNCHANGED <<call, checkCalls, evaluator>>

notLessThanValidate ==
  /\ stage = "ready" /\ call.name = "notLessThan"
  /\ result' = notLessThan(call.param, call.value, call.path)
  /\ stage' = "done"
  /\ UNCHANGED <<call, checkCalls, evaluator>>

\* notDuplicate(checkDuplicate).validate up to its await: checkDuplicate is
\* called with the value; if it throws, the Promise of validate rejects
notDuplicateValidate ==
  /\ stage = "ready" /\ call.name = "notDuplicate"
  /\ checkCalls' = Append(checkCalls, call.value)
  /\ IF call.answer = "throw"
     THEN result' = CheckFault /\ stage' = "done"
     ELSE stage' = "awaiting" /\ UNCHANGED result
  /\ UNCHANGED <<call, evaluator>>

\* validate reporting a rejection of checkDuplicate as a duplicate
notDuplicateResume_ReportsRejection ==
  /\ stage = "awaiting" /\ call.name = "notDuplicate"
  /\ result' = IF call.answer = "false" THEN Returns
               ELSE NegationError(call.path, "notDuplicate")
  /\ stage' = "done"
  /\ UNCHANGED <<call, checkCalls, evaluator>>

\* the Promise of checkDuplicate settles and validate goes on after its await
notDuplicateResume ==
  /\ stage = "awaiting" /\ call.name = "notDuplicate"
  /\ result' = CASE call.answer = "true"  -> NegationError(call.path, "notDuplicate")
                 [] call.answer = "false" -> Returns
                 [] OTHER                 -> CheckFault
  /\ stage' = "done"
  /\ UNCHANGED <<call, checkCalls, evaluator>>

NextBuiltIn ==
  \/ notNullValidate
  \/ notEmptyValidate
  \/ notNegativeValidate
  \/ notLongerThanValidate
  \/ notShorterThanValidate
  \/ notGreaterThanValidate
  \/ notLessThanValidate
  \/ notDuplicateValidate
  \/ notDuplicateResume

SpecBuiltIn == InitBuiltIn /\ [][NextBuiltIn]_vars

\* the catalogue of the built-ins: the condition under which each one is
\* to raise its violation
ConditionMet(c) ==
  CASE c.name = "notNull"        -> c.value \in {Null, UndefinedValue}
    [] c.name = "notEmpty"       -> \A i \in 1..Len(c.value.s) : c.value.s[i] = " "
    [] c.name = "notNegative"    -> c.value.n < 0
    [] c.name = "notLongerThan"  -> Len(c.value.s) > c.param
    [] c.name = "notShorterThan" -> Len(c.value.s) < c.param
    [] c.name = "notGreaterThan" -> c.value.n > c.param
    [] c.name = "notLessThan"    -> c.value.n < c.param
    [] c.name = "notDuplicate"   -> c.answer = "true"
    [] OTHER                     -> FALSE

\* C28: a call of a built-in constraint (for notDuplicate: one whose
\* checkDuplicate resolves) raises, when the built-in's condition is met, the
\* violation that carries the built-in's own name and exactly the path of
\* the call, and raises nothing when the condition is not met.
C28_BuiltInIdentityAndPath ==
  (stage = "done" /\ call.answer \notin {"reject", "throw"}) =>
    result = IF ConditionMet(call)
             THEN [kind |-> "violation", path |-> call.path, constraint |-> call.name]
             ELSE Returns

C28_Witness ==
  /\ stage = "done"
  /\ call.name = "notShorterThan" /\ call.param = 2 /\ call.value.s = <<"a">>
  /\ call.path = <<"a">>
  /\ result = [kind |-> "violation", path |-> <<"a">>, constraint |-> "notShorterThan"]

\* C29: over integers, notLongerThan(max) raises its violation exactly when
\* the length exceeds max, notShorterThan(min) exactly when the length is
\* below min, notGreaterThan(max) exactly when the value exceeds max,
\* notLessThan(min) exactly when the value is below min and notNegative
\* exactly when the value is below 0; at the bound itself each one passes,
\* and notLongerThan(0) passes on the empty string only.
C29_StrictThresholds ==
  stage = "done" =>
    LET raised == result.kind = "violation"
        len    == Len(call.value.s)
        num    == call.value.n
    IN /\ call.name = "notLongerThan"  => (raised <=> len > call.param)
       /\ call.name = "notShorterThan" => (raised <=> len < call.param)
       /\ call.name = "notGreaterThan" => (raised <=> num > call.param)
       /\ call.name = "notLessThan"    => (raised <=> num < call.param)
       /\ call.name = "notNegative"    => (raised <=> num < 0)
       /\ (call.name \in {"notLongerThan", "notShorterThan"} /\ len = call.param) => ~raised
       /\ (call.name \in {"notGreaterThan", "notLessThan"} /\ num = call.param) => ~raised
       /\ (call.name = "notNegative" /\ num = 0) => ~raised
       /\ (call.name = "notLongerThan" /\ call.param = 0) => (raised <=> call.value.s # << >>)

C29_Witness ==
  /\ stage = "done"
  /\ call.name = "notLongerThan" /\ call.param = 0 /\ call.value.s = << >>
  /\ result = Returns

\* C30: a constraint built by notDuplicate calls checkDuplicate once per
\* check, with the value under test; it raises the violation named
\* 'notDuplicate' exactly when checkDuplicate resolves true and passes when
\* it resolves false; and when checkDuplicate rejects, the check ends with
\* what checkDuplicate raised and not with a violation.
C30_NotDuplicate ==
  call.name = "notDuplicate" =>
    /\ checkCalls = IF stage = "ready" THEN << >> ELSE <<call.value>>
    /\ stage = "done" =>
         /\ result.kind = "violation" <=> call.answer = "true"
         /\ result.kind = "violation" => result = NegationError(call.path, "notDuplicate")
         /\ call.answer = "false" => result = Returns
         /\ call.answer \in {"reject", "throw"} => result = CheckFault

C30_Witness ==
  /\ call.name = "notDuplicate" /\ call.answer = "reject"
  /\ call.value.type = "string" /\ call.value.s = <<"a">>
  /\ stage = "done" /\ result = CheckFault /\ checkCalls = <<call.value>>

====
